---- MODULE Spec2Model ----
(***************************************************************************)
(* A model of chess-rs (src/main.rs): the VisualBoard interaction state    *)
(* machine (Playing / Waiting / Promoting), the pixel <-> cell <-> square  *)
(* coordinate mapping, and the chess rules the board obeys behind the      *)
(* calls piece_on, generate_moves_for and try_play.                        *)
(*                                                                         *)
(* Encoding.  Option<T> is a sequence of length 0 (None) or 1 (Some(v)).   *)
(* A Point is a pair <<x, y>> of integer pixel coordinates.  A Square is   *)
(* its index 0..63 (A1 = 0, B1 = 1, ..., H8 = 63).  A fractional grid      *)
(* coordinate x / tile_size is kept as its floor x \div tile_size: the     *)
(* code only compares it with 0.0 and 8.0 and truncates it to usize, and   *)
(* all three read the floor alone.                                         *)
(***************************************************************************)
EXTENDS Integers, Sequences, FiniteSets, TLC

None == << >>
Some(v) == << v >>

Abs(n) == IF n < 0 THEN -n ELSE n
Sgn(n) == IF n < 0 THEN -1 ELSE IF n > 0 THEN 1 ELSE 0
Max2(a, b) == IF a < b THEN b ELSE a

(***************************************************************************)
(* Squares, files, ranks.                                                  *)
(***************************************************************************)
Squares == 0..63
File(sq) == sq % 8
Rank(sq) == sq \div 8
Sq(f, r) == r * 8 + f

\* tile_size: 64.0 (VisualBoard::default)
tile_size == 64

(***************************************************************************)
(* Coordinate mapper.                                                      *)
(***************************************************************************)
coord_to_square_NoFlip(x, y) == 63 - (y * 8 + x)

\* Square::index(63 - (y * 8 + (7-x)))
coord_to_square(x, y) == 63 - (y * 8 + (7 - x))

\* (index % 8, 7 - index / 8)
index_to_coord(index) == << index % 8, 7 - (index \div 8) >>

\* (point.x / tile_size, point.y / tile_size), each kept as its floor
canvas_coord_to_square_coord(point) ==
    << point[1] \div tile_size, point[2] \div tile_size >>

OffBoard_Inclusive(c) == c[1] > 8 \/ c[1] < 0 \/ c[2] > 8 \/ c[2] < 0

\* the test `square_x >= 8.0 || square_x < 0.0 || square_y >= 8.0 || square_y < 0.0`
OffBoard(c) == c[1] >= 8 \/ c[1] < 0 \/ c[2] >= 8 \/ c[2] < 0

square_from_point(point) ==
    LET c == canvas_coord_to_square_coord(point)
    IN  IF OffBoard(c) THEN None ELSE Some(coord_to_square(c[1], c[2]))

(***************************************************************************)
(* The board: cozy_chess::Board as the program uses it.                    *)
(***************************************************************************)
Other(c) == IF c = "White" THEN "Black" ELSE "White"
BackRank == << "Rook", "Knight", "Bishop", "Queen", "King", "Bishop", "Knight", "Rook" >>
PromotionPieces == { "Knight", "Bishop", "Rook", "Queen" }

\* Board::default(): the standard initial position
BoardDefault ==
    [ pieces |-> [ sq \in Squares |->
                     IF Rank(sq) \in {0, 7} THEN BackRank[File(sq) + 1]
                     ELSE IF Rank(sq) \in {1, 6} THEN "Pawn" ELSE "None" ],
      colors |-> [ sq \in Squares |->
                     IF Rank(sq) <= 1 THEN "White"
                     ELSE IF Rank(sq) >= 6 THEN "Black" ELSE "None" ],
      side_to_move |-> "White",
      castle_rights |-> [ White |-> [ short |-> Some(7), long |-> Some(0) ],
                          Black |-> [ short |-> Some(7), long |-> Some(0) ] ],
      en_passant |-> None ]

\* board.piece_on(square)
piece_on(b, sq) == IF b.pieces[sq] = "None" THEN None ELSE Some(b.pieces[sq])

\* board.color_on(square)
color_on(b, sq) == IF b.colors[sq] = "None" THEN None ELSE Some(b.colors[sq])

BackRankOf(c) == IF c = "White" THEN 0 ELSE 7
Forward(c) == IF c = "White" THEN 1 ELSE -1

\* the squares strictly between two squares of one rank, file or diagonal
Between(a, b) ==
    LET df == File(b) - File(a)
        dr == Rank(b) - Rank(a)
        n  == Max2(Abs(df), Abs(dr))
    IN  { Sq(File(a) + k * Sgn(df), Rank(a) + k * Sgn(dr)) : k \in 1..(n - 1) }

Clear(b, a, c) == \A s \in Between(a, c) : b.pieces[s] = "None"

\* the piece on `from` attacks square `to`
Attacks(b, from, to) ==
    LET df == File(to) - File(from)
        dr == Rank(to) - Rank(from)
        p  == b.pieces[from]
    IN  /\ from # to
        /\ CASE p = "Pawn"   -> dr = Forward(b.colors[from]) /\ Abs(df) = 1
             [] p = "Knight" -> { Abs(df), Abs(dr) } = {1, 2}
             [] p = "King"   -> Max2(Abs(df), Abs(dr)) = 1
             [] p = "Bishop" -> Abs(df) = Abs(dr) /\ Clear(b, from, to)
             [] p = "Rook"   -> (df = 0 \/ dr = 0) /\ Clear(b, from, to)
             [] p = "Queen"  -> (df = 0 \/ dr = 0 \/ Abs(df) = Abs(dr)) /\ Clear(b, from, to)
             [] OTHER        -> FALSE

Attacked(b, sq, by) == \E s \in Squares : b.colors[s] = by /\ Attacks(b, s, sq)

KingSquare(b, c) == CHOOSE s \in Squares : b.pieces[s] = "King" /\ b.colors[s] = c

InCheck(b, c) == Attacked(b, KingSquare(b, c), Other(c))

\* the square a pawn capturing en passant lands on
EpSquare(b) ==
    IF b.en_passant = None THEN None
    ELSE Some(Sq(b.en_passant[1], IF b.side_to_move = "White" THEN 5 ELSE 2))

\* castling is the king "capturing" its own rook; the king ends on the G or C file
CastleIsShort(mv) == File(mv.to) > File(mv.from)
CastleKingTo(mv) == Sq(IF CastleIsShort(mv) THEN 6 ELSE 2, Rank(mv.from))
CastleRookTo(mv) == Sq(IF CastleIsShort(mv) THEN 5 ELSE 3, Rank(mv.from))

\* Board::play_unchecked
play_unchecked(b, mv) ==
    LET color    == b.side_to_move
        them     == Other(color)
        moved    == b.pieces[mv.from]
        isCastle == b.colors[mv.to] = color
        isEp     == moved = "Pawn" /\ EpSquare(b) = Some(mv.to)
        epVictim == Sq(File(mv.to), Rank(mv.from))
        isDouble == moved = "Pawn" /\ Abs(Rank(mv.to) - Rank(mv.from)) = 2
        placed   == IF mv.promotion # None THEN mv.promotion[1] ELSE moved
        pieces2  == IF isCastle
                    THEN [ s \in Squares |->
                             IF s = CastleKingTo(mv) THEN "King"
                             ELSE IF s = CastleRookTo(mv) THEN "Rook"
                             ELSE IF s \in {mv.from, mv.to} THEN "None"
                             ELSE b.pieces[s] ]
                    ELSE [ s \in Squares |->
                             IF s = mv.to THEN placed
                             ELSE IF s = mv.from \/ (isEp /\ s = epVictim) THEN "None"
                             ELSE b.pieces[s] ]
        colors2  == IF isCastle
                    THEN [ s \in Squares |->
                             IF s \in {CastleKingTo(mv), CastleRookTo(mv)} THEN color
                             ELSE IF s \in {mv.from, mv.to} THEN "None"
                             ELSE b.colors[s] ]
                    ELSE [ s \in Squares |->
                             IF s = mv.to THEN color
                             ELSE IF s = mv.from \/ (isEp /\ s = epVictim) THEN "None"
                             ELSE b.colors[s] ]
        ours     == b.castle_rights[color]
        ours2    == IF isCastle \/ moved = "King"
                    THEN [ short |-> None, long |-> None ]
                    ELSE IF moved = "Rook" /\ Rank(mv.from) = BackRankOf(color)
                    THEN [ short |-> IF ours.short = Some(File(mv.from)) THEN None ELSE ours.short,
                           long  |-> IF ours.long = Some(File(mv.from)) THEN None ELSE ours.long ]
                    ELSE ours
        theirs   == b.castle_rights[them]
        theirs2  == IF ~isCastle /\ Rank(mv.to) = BackRankOf(them)
                    THEN [ short |-> IF theirs.short = Some(File(mv.to)) THEN None ELSE theirs.short,
                           long  |-> IF theirs.long = Some(File(mv.to)) THEN None ELSE theirs.long ]
                    ELSE theirs
    IN  [ pieces |-> pieces2,
          colors |-> colors2,
          side_to_move |-> them,
          castle_rights |-> IF color = "White"
                            THEN [ White |-> ours2, Black |-> theirs2 ]
                            ELSE [ White |-> theirs2, Black |-> ours2 ],
          en_passant |-> IF isDouble /\ ~isCastle THEN Some(File(mv.to)) ELSE None ]

\* a move of the piece on mv.from that obeys how the piece moves (not yet king safety)
PseudoLegal(b, mv) ==
    LET color == b.side_to_move
        p     == b.pieces[mv.from]
        df    == File(mv.to) - File(mv.from)
        dr    == Rank(mv.to) - Rank(mv.from)
        fwd   == Forward(color)
        last  == BackRankOf(Other(color))
    IN  /\ b.colors[mv.to] # color
        /\ IF p = "Pawn"
           THEN /\ \/ /\ df = 0 /\ dr = fwd /\ b.pieces[mv.to] = "None"
                   \/ /\ df = 0 /\ dr = 2 * fwd
                      /\ Rank(mv.from) = BackRankOf(color) + fwd
                      /\ b.pieces[mv.to] = "None"
                      /\ b.pieces[Sq(File(mv.from), Rank(mv.from) + fwd)] = "None"
                   \/ /\ Abs(df) = 1 /\ dr = fwd
                      /\ (b.colors[mv.to] = Other(color) \/ EpSquare(b) = Some(mv.to))
                /\ IF Rank(mv.to) = last
                   THEN mv.promotion # None /\ mv.promotion[1] \in PromotionPieces
                   ELSE mv.promotion = None
           ELSE mv.promotion = None /\ Attacks(b, mv.from, mv.to)

\* castling: rights held for that rook, nothing between, king not in check and
\* crossing no attacked square
CastleLegal(b, mv) ==
    LET color  == b.side_to_move
        rights == b.castle_rights[color]
        dest   == CastleKingTo(mv)
    IN  /\ b.pieces[mv.from] = "King"
        /\ b.pieces[mv.to] = "Rook"
        /\ mv.promotion = None
        /\ Rank(mv.from) = BackRankOf(color)
        /\ Rank(mv.to) = BackRankOf(color)
        /\ \/ CastleIsShort(mv) /\ rights.short = Some(File(mv.to))
           \/ ~CastleIsShort(mv) /\ rights.long = Some(File(mv.to))
        /\ Clear(b, mv.from, mv.to)
        /\ \A s \in {mv.from, dest} \cup Between(mv.from, dest) : ~Attacked(b, s, Other(color))

\* Board::is_legal
is_legal(b, mv) ==
    /\ b.colors[mv.from] = b.side_to_move
    /\ IF b.colors[mv.to] = b.side_to_move
       THEN CastleLegal(b, mv)
       ELSE /\ PseudoLegal(b, mv)
            /\ ~InCheck(play_unchecked(b, mv), b.side_to_move)

AllPromotions == { None } \cup { Some(p) : p \in PromotionPieces }

\* board.generate_moves_for(square.bitboard(), ..): the legal moves of the piece on sq
generate_moves_for(b, sq) ==
    { mv \in [ from : {sq}, to : Squares, promotion : AllPromotions ] : is_legal(b, mv) }

\* board.try_play(mv): Ok and the move played, or Err and the board untouched
try_play(b, mv) ==
    IF is_legal(b, mv)
    THEN [ ok |-> TRUE, board |-> play_unchecked(b, mv) ]
    ELSE [ ok |-> FALSE, board |-> b ]

(***************************************************************************)
(* VisualBoard.  The struct's fields are the variables; the operators      *)
(* below take the struct as a record `vb` and return the record after the  *)
(* call, with the try_play calls made on the way.                          *)
(***************************************************************************)
VARIABLES
    board,              \* VisualBoard.board
    selected,           \* VisualBoard.selected: Option<Square>
    promotion_square,   \* VisualBoard.promotion_square: Option<Square>
    state,              \* VisualBoard.state: "Playing" | "Waiting" | "Promoting"
    hovered_tile,       \* VisualBoard.hovered_tile: Option<(usize, usize)>
    cache,              \* VisualBoard.cache: None (cleared) or Some(frame)
    messages,           \* the messages published and not yet handled, oldest first
    last,               \* history: the last step, the struct before it, the calls it made
    plies,              \* history: the number of moves played so far
    episode,            \* history: the promotion being resolved, as it was detected
    call                \* a call of a coordinate-mapper function: its argument and results

vars == << board, selected, promotion_square, state, hovered_tile, cache, messages, last,
          plies, episode, call >>

\* the fields the handlers read and write (the cache apart)
VB == [ board |-> board, selected |-> selected, promotion_square |-> promotion_square,
        state |-> state, hovered_tile |-> hovered_tile ]

\* VisualBoard::default()
VisualBoardDefault ==
    [ board |-> BoardDefault, selected |-> None, promotion_square |-> None,
      state |-> "Playing", hovered_tile |-> None ]

Outcome(vb, calls, panic) == [ vb |-> vb, calls |-> calls, panic |-> panic ]
Call(mv, r) == [ mv |-> mv, ok |-> r.ok ]

is_promotion_move_Never(b, selected_square, new_square) == FALSE

is_promotion_move_AnyMove(b, selected_square, new_square) ==
    \E mv \in generate_moves_for(b, selected_square) : mv.to = new_square

\* the loop over the pawn's moves: some move to new_square carries a promotion
is_promotion_move(b, selected_square, new_square) ==
    \E mv \in generate_moves_for(b, selected_square) :
        mv.to = new_square /\ mv.promotion # None

EnterPromoting_NoSquare(vb, new_square) == [ vb EXCEPT !.state = "Promoting" ]

EnterPromoting_Reselect(vb, new_square) ==
    [ vb EXCEPT !.promotion_square = Some(new_square), !.state = "Promoting",
                !.selected = Some(new_square) ]

\* self.promotion_square = Some(new_square); self.state = State::Promoting; return
EnterPromoting(vb, new_square) ==
    [ vb EXCEPT !.promotion_square = Some(new_square), !.state = "Promoting" ]

\* self.selected = self.square_from_point(point)
Reselect(vb, point) == [ vb EXCEPT !.selected = square_from_point(point) ]

Commit_ThenWaiting(vb, point, mv) ==
    LET r == try_play(vb.board, mv)
    IN  Outcome(Reselect([ vb EXCEPT !.board = r.board,
                                     !.state = IF r.ok THEN "Waiting" ELSE @ ], point),
                << Call(mv, r) >>, FALSE)

Commit_PassOnReject(vb, point, mv) ==
    LET r == try_play(vb.board, mv)
        b == IF r.ok THEN r.board
             ELSE [ vb.board EXCEPT !.side_to_move = Other(vb.board.side_to_move) ]
    IN  Outcome(Reselect([ vb EXCEPT !.board = b ], point), << Call(mv, r) >>, FALSE)

Commit_KeepSelection(vb, point, mv) ==
    LET r == try_play(vb.board, mv)
    IN  Outcome([ vb EXCEPT !.board = r.board ], << Call(mv, r) >>, FALSE)

Commit_DeselectOnSuccess(vb, point, mv) ==
    LET r == try_play(vb.board, mv)
    IN  Outcome([ vb EXCEPT !.board = r.board,
                            !.selected = IF r.ok THEN None ELSE square_from_point(point) ],
                << Call(mv, r) >>, FALSE)

\* let _ = self.board.try_play(Move { from, to, promotion: None }), then line 93
Commit(vb, point, mv) ==
    LET r == try_play(vb.board, mv)
    IN  Outcome(Reselect([ vb EXCEPT !.board = r.board ], point), << Call(mv, r) >>, FALSE)

\* Message::Clicked(point) in State::Playing
ClickedPlaying(vb, point) ==
    LET target == square_from_point(point)
    IN  IF vb.selected # None /\ target # None
        THEN LET selected_square == vb.selected[1]
                 new_square      == target[1]
             IN  IF /\ piece_on(vb.board, selected_square) = Some("Pawn")
                    /\ is_promotion_move(vb.board, selected_square, new_square)
                 THEN Outcome(EnterPromoting(vb, new_square), << >>, FALSE)
                 ELSE Commit(vb, point, [ from |-> selected_square, to |-> new_square,
                                          promotion |-> None ])
        ELSE Outcome(Reselect(vb, point), << >>, FALSE)

PickerPiece_KnightBishopSwapped(x) ==
    CASE x = 2 -> "Rook"
      [] x = 3 -> "Bishop"
      [] x = 4 -> "Knight"
      [] x = 5 -> "Queen"
      [] OTHER -> "panic"

\* the match on the hovered file: 2 => Rook, 3 => Knight, 4 => Bishop, 5 => Queen
PickerPiece(x) ==
    CASE x = 2 -> "Rook"
      [] x = 3 -> "Knight"
      [] x = 4 -> "Bishop"
      [] x = 5 -> "Queen"
      [] OTHER -> "panic"

IsPickerCell_AnyRow(x, y) == x \in 2..5

\* (2..=5).contains(&x) && y == 4
IsPickerCell(x, y) == x \in 2..5 /\ y = 4

ClickedPromoting_StaysPromoting(vb, point) ==
    IF vb.hovered_tile # None /\ IsPickerCell(vb.hovered_tile[1][1], vb.hovered_tile[1][2])
    THEN IF \/ PickerPiece(vb.hovered_tile[1][1]) = "panic"
            \/ vb.selected = None
            \/ vb.promotion_square = None
         THEN Outcome(vb, << >>, TRUE)
         ELSE LET mv == [ from |-> vb.selected[1], to |-> vb.promotion_square[1],
                          promotion |-> Some(PickerPiece(vb.hovered_tile[1][1])) ]
                  r  == try_play(vb.board, mv)
              IN  Outcome([ Reselect([ vb EXCEPT !.board = r.board ], point)
                              EXCEPT !.promotion_square = None ],
                          << Call(mv, r) >>, FALSE)
    ELSE Outcome(vb, << >>, FALSE)

\* Message::Clicked(point) in State::Promoting; the unwraps and the panic!("???")
\* end the program
ClickedPromoting(vb, point) ==
    IF vb.hovered_tile # None /\ IsPickerCell(vb.hovered_tile[1][1], vb.hovered_tile[1][2])
    THEN IF \/ PickerPiece(vb.hovered_tile[1][1]) = "panic"
            \/ vb.selected = None
            \/ vb.promotion_square = None
         THEN Outcome(vb, << >>, TRUE)
         ELSE LET mv == [ from |-> vb.selected[1], to |-> vb.promotion_square[1],
                          promotion |-> Some(PickerPiece(vb.hovered_tile[1][1])) ]
                  r  == try_play(vb.board, mv)
              IN  Outcome([ Reselect([ vb EXCEPT !.board = r.board, !.state = "Playing" ], point)
                              EXCEPT !.promotion_square = None ],
                          << Call(mv, r) >>, FALSE)
    ELSE Outcome(vb, << >>, FALSE)

\* the value CursorMoved stores in hovered_tile
hovered_from_point(point) ==
    LET c == canvas_coord_to_square_coord(point)
    IN  IF OffBoard(c) THEN None ELSE Some(<< c[1], c[2] >>)

\* Message::CursorMoved(point)
CursorMovedTo(vb, point) ==
    Outcome([ vb EXCEPT !.hovered_tile = hovered_from_point(point) ], << >>, FALSE)

\* VisualBoard::update(message), the cache.clear() apart
update(vb, message) ==
    IF message.kind = "Clicked"
    THEN CASE vb.state = "Playing"   -> ClickedPlaying(vb, message.point)
           [] vb.state = "Waiting"   -> Outcome(vb, << >>, FALSE)
           [] vb.state = "Promoting" -> ClickedPromoting(vb, message.point)
    ELSE CursorMovedTo(vb, message.point)

Clicked(point) == [ kind |-> "Clicked", point |-> point ]
CursorMoved(point) == [ kind |-> "CursorMoved", point |-> point ]

ButtonPressed(button) == [ type |-> "ButtonPressed", button |-> button ]
CursorMovedEvent(position) == [ type |-> "CursorMoved", position |-> position ]

canvas_update_AnyPosition(vb, event, cursor_position) ==
    LET position == IF cursor_position = None THEN << 8 * tile_size, 0 >>
                    ELSE cursor_position[1]
    IN  CASE event.type = "ButtonPressed" ->
               IF event.button = "Left" THEN Some(Clicked(position)) ELSE None
          [] event.type = "CursorMoved" ->
               IF vb.state = "Promoting" THEN Some(CursorMoved(event.position)) ELSE None
          [] OTHER -> None

\* canvas::Program::update: the message an event publishes, if any.
\* cursor_position is cursor.position_in(bounds): None off the canvas.
canvas_update(vb, event, cursor_position) ==
    IF cursor_position = None THEN None
    ELSE CASE event.type = "ButtonPressed" ->
                IF event.button = "Left" THEN Some(Clicked(cursor_position[1])) ELSE None
           [] event.type = "CursorMoved" ->
                IF vb.state = "Promoting" THEN Some(CursorMoved(event.position)) ELSE None
           [] OTHER -> None

(***************************************************************************)
(* Inputs.                                                                 *)
(***************************************************************************)
\* moves played before the model stops taking input
MaxPlies == 10

\* the centre pixel of a square's cell
Centre(sq) ==
    LET c == index_to_coord(sq)
    IN  << c[1] * tile_size + tile_size \div 2, c[2] * tile_size + tile_size \div 2 >>

\* h2 h4 h5 h6 g7 h8 f8: a white pawn's way to promotion;
\* a7 a5 a4 a3 b2 a1 c1: a black pawn's; e4: the picker's bishop cell (4, 4)
ClickSquares == { 15, 31, 39, 47, 54, 63, 61, 48, 32, 24, 16, 9, 0, 2, 28 }
ClickPoints == { Centre(sq) : sq \in ClickSquares }

\* the promotion picker: row 4, files 2..5
PickerCells == { << 2, 4 >>, << 3, 4 >>, << 4, 4 >>, << 5, 4 >> }

\* the four picker cells and a cell beside them
HoverCells == { << 2, 4 >>, << 3, 4 >>, << 4, 4 >>, << 5, 4 >>, << 4, 3 >> }
HoverPoints == { << c[1] * tile_size + 5, c[2] * tile_size + 60 >> : c \in HoverCells }

\* points of the window beside and below the canvas, which view() sizes to
\* 8 * tile_size each way: with the pointer there cursor.position_in(bounds) is None
OffCanvasPoints == { << 8 * tile_size, 32 >>, << 32, 8 * tile_size >> }

\* an event and cursor.position_in(bounds): the point on the canvas, or None
Inputs ==
    { << ButtonPressed("Left"), Some(p) >> : p \in ClickPoints }
        \cup { << CursorMovedEvent(p), Some(p) >> : p \in HoverPoints }
        \cup { << CursorMovedEvent(p), None >> : p \in OffCanvasPoints }
        \cup { << ButtonPressed("Right"), Some(Centre(15)) >>,
               << ButtonPressed("Left"), None >>,
               << [ type |-> "ButtonReleased" ], Some(Centre(15)) >> }

\* messages the runtime holds at once: the events of one batch all pass
\* canvas::Program::update before the first of their messages is handled
MaxInFlight == 2

\* the events that arrive while a message is in flight: a cursor move onto the
\* picker's knight cell or onto the cell above the bishop's, and a click on e4
BatchedCells == { << 3, 4 >>, << 4, 3 >> }

BatchedInputs ==
    { << CursorMovedEvent(p), Some(p) >> :
          p \in { << c[1] * tile_size + 5, c[2] * tile_size + 60 >> : c \in BatchedCells } }
        \cup { << ButtonPressed("Left"), Some(Centre(28)) >> }

\* no event: the step was not canvas::Program::update
NoEvent == [ type |-> "None" ]

\* no mapper call in progress
NoCall == [ fn |-> "none", arg |-> None, out |-> None, back |-> None ]

(***************************************************************************)
(* The state machine.                                                      *)
(***************************************************************************)
Startup ==
    /\ board = VisualBoardDefault.board
    /\ selected = VisualBoardDefault.selected
    /\ promotion_square = VisualBoardDefault.promotion_square
    /\ state = VisualBoardDefault.state
    /\ hovered_tile = VisualBoardDefault.hovered_tile
    /\ cache = None
    /\ messages = << >>
    /\ last = [ step |-> "Startup", event |-> NoEvent, cursor |-> None, published |-> None,
                message |-> None, pre |-> VisualBoardDefault, calls |-> << >>,
                panic |-> FALSE, episode |-> None ]
    /\ plies = 0
    /\ episode = None

Init == Startup /\ call = NoCall

Played(calls) == Cardinality({ i \in DOMAIN calls : calls[i].ok })

\* the history of a promotion: the Selection, the clicked square and the board of
\* the click that entered Promoting, and whether a CursorMoved has since put the
\* hovered cell on a picker cell; None outside Promoting
EpisodeAfter(message, vb) ==
    IF vb.state # "Promoting" THEN None
    ELSE IF state # "Promoting"
    THEN Some([ from |-> selected, to |-> square_from_point(message.point),
                board |-> board, hovered |-> FALSE ])
    ELSE Some([ episode[1] EXCEPT !.hovered =
                  \/ @
                  \/ /\ message.kind = "CursorMoved"
                     /\ vb.hovered_tile # None
                     /\ vb.hovered_tile[1] \in PickerCells ])

cache_clear_Forgotten(c) == c

\* self.cache.clear()
cache_clear(c) == None

\* canvas::Program::update on one event: the filter reads the state as it is
\* now and hands the message it publishes, if any, to the runtime; the struct
\* is not touched
CanvasUpdate(event, cursor_position) ==
    LET message == canvas_update(VB, event, cursor_position)
    IN  /\ plies < MaxPlies
        /\ ~last.panic
        /\ \/ messages = << >>
           \/ Len(messages) < MaxInFlight /\ << event, cursor_position >> \in BatchedInputs
        /\ messages' = IF message = None THEN messages ELSE Append(messages, message[1])
        /\ last' = [ step |-> "canvas_update", event |-> event, cursor |-> cursor_position,
                     published |-> message, message |-> None, pre |-> VB,
                     calls |-> << >>, panic |-> FALSE, episode |-> episode ]
        /\ UNCHANGED << board, selected, promotion_square, state, hovered_tile, cache,
                        plies, episode, call >>

\* VisualBoard::update on the oldest message in flight; it first clears the cache
Update ==
    /\ messages # << >>
    /\ ~last.panic
    /\ LET message == Head(messages)
           out     == update(VB, message)
       IN  /\ messages' = Tail(messages)
           /\ cache' = cache_clear(cache)
           /\ episode' = EpisodeAfter(message, out.vb)
           /\ board' = out.vb.board
           /\ selected' = out.vb.selected
           /\ promotion_square' = out.vb.promotion_square
           /\ state' = out.vb.state
           /\ hovered_tile' = out.vb.hovered_tile
           /\ plies' = plies + Played(out.calls)
           /\ last' = [ step |-> "update", event |-> NoEvent, cursor |-> None,
                        published |-> None, message |-> Some(message), pre |-> VB,
                        calls |-> out.calls, panic |-> out.panic, episode |-> episode ]
    /\ UNCHANGED call

Next ==
    \/ \E input \in Inputs : CanvasUpdate(input[1], input[2])
    \/ Update

Spec == Init /\ [][Next]_vars

(***************************************************************************)
(* canvas::Program::draw.  The frame is what the closure paints: the tiles,  *)
(* the indicated squares, the piece sprites and, while Promoting, the        *)
(* overlay.  The cache keeps the frame until update() clears it.             *)
(***************************************************************************)
Cells == (0..7) \X (0..7)

\* if (x+y)%2==0 { self.light_color } else { self.dark_color }
tile_color(x, y) == IF (x + y) % 2 = 0 THEN "light_color" ELSE "dark_color"

\* the listener keeps the last group of moves it is given: the en passant
\* capture, which the generator hands over on its own after the pawn's other
\* moves, or else all the moves of the piece
indicated_squares(vb) ==
    IF vb.selected = None THEN None
    ELSE LET moves == generate_moves_for(vb.board, vb.selected[1])
             ep    == { mv \in moves : /\ vb.board.pieces[mv.from] = "Pawn"
                                       /\ EpSquare(vb.board) = Some(mv.to) }
         IN  IF moves = {} THEN None
             ELSE IF ep # {} THEN Some({ mv.to : mv \in ep })
             ELSE Some({ mv.to : mv \in moves })

\* pm.to painted cell by cell through index_to_coord
indicated_cells(vb) ==
    IF indicated_squares(vb) = None THEN {}
    ELSE { index_to_coord(square) : square \in indicated_squares(vb)[1] }

color_dir(color) ==
    CASE color = Some("White") -> "white/"
      [] color = Some("Black") -> "black/"
      [] OTHER -> ""

piece_file(piece) ==
    CASE piece = "Pawn"   -> "pawn.png"
      [] piece = "Knight" -> "knight.png"
      [] piece = "Bishop" -> "bishop.png"
      [] piece = "Rook"   -> "rook.png"
      [] piece = "Queen"  -> "queen.png"
      [] piece = "King"   -> "king.png"

\* the image drawn on cell (x, y), if a piece stands on coord_to_square(x, y)
piece_sprite(b, x, y) ==
    LET square == coord_to_square(x, y)
    IN  IF piece_on(b, square) = None THEN None
        ELSE Some(<< "assets/monochrome/", color_dir(color_on(b, square)),
                     piece_file(piece_on(b, square)[1]) >>)

\* the cells painted over with Color::from_rgba(0.0, 0.0, 0.0, 0.9)
dimmed_cells(vb) == IF vb.state = "Promoting" THEN Cells ELSE {}

hover_highlight_AnyState(vb) ==
    IF vb.hovered_tile # None /\ IsPickerCell(vb.hovered_tile[1][1], vb.hovered_tile[1][2])
    THEN vb.hovered_tile
    ELSE None

\* the cell painted with Color::from_rgba(0.0, 1.0, 0.0, 0.5)
hover_highlight(vb) ==
    IF /\ vb.state = "Promoting"
       /\ vb.hovered_tile # None
       /\ IsPickerCell(vb.hovered_tile[1][1], vb.hovered_tile[1][2])
    THEN vb.hovered_tile
    ELSE None

\* the 4 promotion pieces: cell, directory, file
promotion_sprites(vb) ==
    IF vb.state = "Promoting"
    THEN { << << 2, 4 >>, "assets/color/neutral/", "rook.png" >>,
           << << 3, 4 >>, "assets/color/neutral/", "knight.png" >>,
           << << 4, 4 >>, "assets/color/neutral/", "bishop.png" >>,
           << << 5, 4 >>, "assets/color/neutral/", "queen.png" >> }
    ELSE {}

\* the closure given to self.cache.draw
draw(vb) ==
    [ tiles             |-> [ c \in Cells |-> tile_color(c[1], c[2]) ],
      indicated         |-> indicated_cells(vb),
      pieces            |-> [ c \in Cells |-> piece_sprite(vb.board, c[1], c[2]) ],
      dimmed            |-> dimmed_cells(vb),
      highlight         |-> hover_highlight(vb),
      promotion_sprites |-> promotion_sprites(vb) ]

\* self.cache.draw(..): the closure runs only when the cache is empty
cache_draw(c, vb) == IF c = None THEN Some(draw(vb)) ELSE c

\* a repaint
Draw ==
    /\ ~last.panic
    /\ cache' = cache_draw(cache, VB)
    /\ UNCHANGED << board, selected, promotion_square, state, hovered_tile, messages, last,
                    plies, episode, call >>

\* moves played before the model with repaints stops taking input
MaxPliesDraw == 9

\* messages in flight at once in the model with repaints
MaxInFlightDraw == 1

NextDraw ==
    \/ /\ plies < MaxPliesDraw
       /\ Len(messages) < MaxInFlightDraw
       /\ \E input \in Inputs : CanvasUpdate(input[1], input[2])
    \/ plies < MaxPliesDraw /\ Update
    \/ Draw

SpecDraw == Init /\ [][NextDraw]_vars

(***************************************************************************)
(* The coordinate mapper on its own: a call with an argument drawn from    *)
(* the whole board and its surroundings, and the inverse applied to the    *)
(* result.                                                                 *)
(***************************************************************************)
\* pixel coordinates: the first, the middle and the last pixel of each of the
\* eight columns (rows), of the one before and of the one after
MapperCoords ==
    { k * tile_size + o : k \in -1..8, o \in { 0, tile_size \div 2, tile_size - 1 } }

MapperCalls ==
    { [ fn |-> "square_from_point", arg |-> p, out |-> None, back |-> None ] :
          p \in MapperCoords \X MapperCoords }
        \cup { [ fn |-> "coord_to_square", arg |-> c, out |-> None, back |-> None ] :
                   c \in Cells }
        \cup { [ fn |-> "index_to_coord", arg |-> i, out |-> None, back |-> None ] :
                   i \in Squares }

InitMapper == Startup /\ call \in MapperCalls

\* the function called on its argument
MapperApply ==
    /\ call.out = None
    /\ call' = [ call EXCEPT !.out =
                   Some(CASE call.fn = "square_from_point" -> square_from_point(call.arg)
                          [] call.fn = "coord_to_square" -> coord_to_square(call.arg[1], call.arg[2])
                          [] call.fn = "index_to_coord" -> index_to_coord(call.arg)) ]
    /\ UNCHANGED << board, selected, promotion_square, state, hovered_tile, cache, messages,
                    last, plies, episode >>

\* the opposite function called on the result (of square_from_point: on the square)
MapperInvert ==
    /\ call.out # None
    /\ call.back = None
    /\ call.fn = "square_from_point" => call.out[1] # None
    /\ call' = [ call EXCEPT !.back =
                   Some(CASE call.fn = "square_from_point" -> index_to_coord(call.out[1][1])
                          [] call.fn = "coord_to_square" -> index_to_coord(call.out[1])
                          [] call.fn = "index_to_coord" ->
                               coord_to_square(call.out[1][1], call.out[1][2])) ]
    /\ UNCHANGED << board, selected, promotion_square, state, hovered_tile, cache, messages,
                    last, plies, episode >>

NextMapper == MapperApply \/ MapperInvert

SpecMapper == InitMapper /\ [][NextMapper]_vars

(***************************************************************************)
(* Properties.  `last` holds the event just handled, the struct before it  *)
(* (last.pre) and the try_play calls it made (last.calls); the variables   *)
(* hold the struct after it.                                               *)
(***************************************************************************)
LastClicked == last.message # None /\ last.message[1].kind = "Clicked"
LastCursorMoved == last.message # None /\ last.message[1].kind = "CursorMoved"
LastPoint == last.message[1].point
LastTarget == square_from_point(LastPoint)

\* legalDestinations(s) holds t with requiresPromotion = true
RequiresPromotion(b, s, t) ==
    \E p \in PromotionPieces : is_legal(b, [ from |-> s, to |-> t, promotion |-> Some(p) ])

\* a click in Playing with a selection and an on-board target
PlayingClickOn ==
    /\ LastClicked
    /\ last.pre.state = "Playing"
    /\ last.pre.selected # None
    /\ LastTarget # None

PromotionDetected ==
    /\ PlayingClickOn
    /\ last.pre.board.pieces[last.pre.selected[1]] = "Pawn"
    /\ RequiresPromotion(last.pre.board, last.pre.selected[1], LastTarget[1])

\* C1: a Playing click on a square the selected pawn reaches only by promoting
\* enters Promoting with PendingPromotion = that square, keeps the Selection,
\* calls try_play not at all and leaves the board as it was.
C1_PromotionDetection ==
    PromotionDetected =>
        /\ state = "Promoting"
        /\ promotion_square = LastTarget
        /\ selected = last.pre.selected
        /\ last.calls = << >>
        /\ board = last.pre.board

C1_Witness == PromotionDetected /\ Rank(LastTarget[1]) = 7

PromotingClickOnPicker(f) ==
    /\ LastClicked
    /\ last.pre.state = "Promoting"
    /\ last.pre.selected # None
    /\ last.pre.promotion_square # None
    /\ last.pre.hovered_tile = Some(<< f, 4 >>)

PieceOfFile(f) ==
    CASE f = 2 -> "Rook" [] f = 3 -> "Knight" [] f = 4 -> "Bishop" [] f = 5 -> "Queen"

\* C2: a Promoting click while the hovered cell is (f, 4), f in 2..5, calls
\* try_play(Selection, PendingPromotion, Some(p)) exactly once, p = Rook, Knight,
\* Bishop, Queen for f = 2, 3, 4, 5, and ends in Playing with PendingPromotion none.
C2_PromotionResolution ==
    \A f \in 2..5 :
        PromotingClickOnPicker(f) =>
            /\ Len(last.calls) = 1
            /\ last.calls[1].mv = [ from |-> last.pre.selected[1],
                                    to |-> last.pre.promotion_square[1],
                                    promotion |-> Some(PieceOfFile(f)) ]
            /\ state = "Playing"
            /\ promotion_square = None

C2_Witness == PromotingClickOnPicker(4) /\ board.pieces[last.pre.promotion_square[1]] = "Bishop"

\* C3: coord_to_square(file, row) = 63 - (row*8 + (7-file)) is a square index,
\* index_to_coord undoes it, and coord_to_square undoes index_to_coord: the two
\* are inverse bijections between the 64 cells and the 64 indices.
C3_CoordBijection ==
    /\ (call.fn = "coord_to_square" /\ call.out # None) =>
           /\ call.out[1] = 63 - (call.arg[2] * 8 + (7 - call.arg[1]))
           /\ call.out[1] \in Squares
    /\ (call.fn = "coord_to_square" /\ call.back # None) => call.back[1] = call.arg
    /\ (call.fn = "index_to_coord" /\ call.out # None) => call.out[1] \in Cells
    /\ (call.fn = "index_to_coord" /\ call.back # None) => call.back[1] = call.arg

C3_Witness == call.fn = "index_to_coord" /\ call.arg = 12 /\ call.back = Some(12)

OnBoardPixel(p) ==
    /\ 0 <= p[1] /\ p[1] < 8 * tile_size
    /\ 0 <= p[2] /\ p[2] < 8 * tile_size

\* the square of cell (file, row): row 0 is rank 8, file 0 is the a-file
SquareOfCell(file, row) == Sq(file, 7 - row)

\* squareCenterPixel(s)
CentrePixel(s) ==
    << File(s) * tile_size + tile_size \div 2, (7 - Rank(s)) * tile_size + tile_size \div 2 >>

\* C4: square_from_point is none for a point with x or y outside [0, 8*tile_size),
\* is the square of cell (floor(x/tile_size), floor(y/tile_size)) for a point
\* inside, and maps the centre pixel of every square back to the square.
C4_SquareFromPoint ==
    (call.fn = "square_from_point" /\ call.out # None) =>
        /\ ~OnBoardPixel(call.arg) => call.out[1] = None
        /\ OnBoardPixel(call.arg) =>
               call.out[1] = Some(SquareOfCell(call.arg[1] \div tile_size,
                                               call.arg[2] \div tile_size))
        /\ \A s \in Squares : call.arg = CentrePixel(s) => call.out[1] = Some(s)

C4_Witness ==
    /\ call.fn = "square_from_point"
    /\ call.arg = << 8 * tile_size, tile_size \div 2 >>
    /\ call.out = Some(None)

RejectedCommit ==
    /\ PlayingClickOn
    /\ ~PromotionDetected
    /\ ~is_legal(last.pre.board, [ from |-> last.pre.selected[1], to |-> LastTarget[1],
                                   promotion |-> None ])

\* C5: a Playing click on an on-board square t, with a Selection s, that detects
\* no promotion and whose try_play(s, t, None) is rejected leaves the board as it
\* was, stays Playing with PendingPromotion none, panics not, and selects t.
C5_RejectedCommit ==
    RejectedCommit =>
        /\ Len(last.calls) = 1 /\ ~last.calls[1].ok
        /\ board = last.pre.board
        /\ state = "Playing"
        /\ promotion_square = None
        /\ ~last.panic
        /\ selected = LastTarget

C5_Witness == RejectedCommit /\ last.pre.selected # LastTarget

PlayingClickStays ==
    /\ LastClicked
    /\ last.pre.state = "Playing"
    /\ LastTarget # None
    /\ state # "Promoting"

\* C6: after a Playing click on an on-board square t that does not enter
\* Promoting, Selection = t: with no commit attempted, a rejected one or a
\* successful one.
C6_SelectionFollowsClick == PlayingClickStays => selected = LastTarget

C6_Witness ==
    /\ PlayingClickStays
    /\ last.calls # << >> /\ last.calls[1].ok
    /\ last.calls[1].mv.from # last.calls[1].mv.to
    /\ selected = Some(last.calls[1].mv.to)

PromotingClickOffPicker ==
    /\ LastClicked
    /\ last.pre.state = "Promoting"
    /\ (last.pre.hovered_tile = None \/ last.pre.hovered_tile[1] \notin PickerCells)

\* C7: a Promoting click while the hovered cell is none or no picker cell is
\* ignored: no try_play call, and state, board, Selection, PendingPromotion and
\* hovered cell all as before, wherever the click point lies.
C7_OffPickerClickIgnored ==
    PromotingClickOffPicker =>
        /\ last.calls = << >>
        /\ ~last.panic
        /\ state = "Promoting"
        /\ board = last.pre.board
        /\ selected = last.pre.selected
        /\ promotion_square = last.pre.promotion_square
        /\ hovered_tile = last.pre.hovered_tile

\* the click lands on the picker's bishop cell while the pointer was last seen
\* one row above the picker
C7_Witness ==
    /\ PromotingClickOffPicker
    /\ last.pre.hovered_tile = Some(<< 4, 3 >>)
    /\ canvas_coord_to_square_coord(LastPoint) = << 4, 4 >>

CursorMovedWhilePromoting == LastCursorMoved /\ last.pre.state = "Promoting"

\* a cursor-moved event filtered while Promoting, with nothing else in flight
CursorMovedEventWhilePromoting ==
    /\ last.step = "canvas_update"
    /\ last.event.type = "CursorMoved"
    /\ last.pre.state = "Promoting"
    /\ messages = IF last.published = None THEN << >> ELSE << last.published[1] >>

\* C8: while Promoting, a cursor-moved event at P sets the hovered cell to
\* (floor(P.x/tile_size), floor(P.y/tile_size)) for P on the board and to none for
\* P off it, changes nothing else, and the same event again changes nothing.
C8_HoverTracksCursor ==
    /\ CursorMovedEventWhilePromoting =>
          IF OnBoardPixel(last.event.position)
          THEN last.published = Some(CursorMoved(last.event.position))
          ELSE last.published = None => hovered_tile = None
    /\ CursorMovedWhilePromoting =>
          /\ hovered_tile =
                IF OnBoardPixel(LastPoint)
                THEN Some(<< LastPoint[1] \div tile_size, LastPoint[2] \div tile_size >>)
                ELSE None
          /\ state = last.pre.state
          /\ board = last.pre.board
          /\ selected = last.pre.selected
          /\ promotion_square = last.pre.promotion_square
          /\ last.calls = << >>
          /\ canvas_update(VB, CursorMovedEvent(LastPoint), Some(LastPoint)) = last.message
          /\ update(VB, last.message[1]).vb = VB

CursorMovedEventOutsidePromoting ==
    /\ last.step = "canvas_update"
    /\ last.event.type = "CursorMoved"
    /\ last.pre.state \in { "Playing", "Waiting" }

CursorMovedOutsidePromoting ==
    /\ LastCursorMoved
    /\ last.pre.state \in { "Playing", "Waiting" }

\* C9: a cursor-moved event is acted upon only while Promoting: while the state
\* is Playing or Waiting it publishes no message, and a CursorMoved message
\* handled then leaves hovered cell, Selection, PendingPromotion, state and
\* board as they were.
C9_CursorMovedOnlyWhilePromoting ==
    /\ CursorMovedEventOutsidePromoting => last.published = None /\ VB = last.pre
    /\ CursorMovedOutsidePromoting => VB = last.pre

\* a left click with the pointer off the board, filtered while Playing
OffBoardPlayingClick ==
    /\ last.step = "canvas_update"
    /\ last.event = ButtonPressed("Left")
    /\ last.cursor = None
    /\ last.pre.state = "Playing"

\* C10: an out-of-board click in Playing publishes no message, so it makes no
\* try_play call, does not enter Promoting, panics not, and leaves board,
\* PendingPromotion and Selection unchanged.
C10_OffBoardClickIgnored ==
    OffBoardPlayingClick =>
        /\ last.published = None
        /\ last.calls = << >>
        /\ state = "Playing"
        /\ ~last.panic
        /\ board = last.pre.board
        /\ promotion_square = last.pre.promotion_square
        /\ selected = last.pre.selected

\* the click came with a piece selected and nothing in flight: the Selection stays
C10_Witness ==
    /\ OffBoardPlayingClick
    /\ messages = << >>
    /\ selected # None
    /\ board.pieces[selected[1]] = "Pawn"
    /\ plies > 0

ResolvingClick == LastClicked /\ last.pre.state = "Promoting" /\ state # "Promoting"
EnteredPromoting == last.pre.state # "Promoting" /\ state = "Promoting"

\* C11: the hovered cell is reset (none) on the transition into Promoting, and a
\* click that resolves a promotion comes after a CursorMoved of that same
\* Promoting episode that put the hovered cell on a picker cell.
C11_HoverBelongsToEpisode ==
    /\ EnteredPromoting => hovered_tile = None
    /\ ResolvingClick => last.episode[1].hovered

LeftPromoting == last.pre.state = "Promoting" /\ state # "Promoting"

\* C12: the pending promotion square is set exactly when the state is Promoting;
\* it is set (from none) by the step that enters Promoting, cleared by the step
\* that leaves it, and changed by no other step.
C12_PendingPromotion ==
    /\ promotion_square # None <=> state = "Promoting"
    /\ EnteredPromoting =>
          last.pre.promotion_square = None /\ promotion_square = LastTarget
    /\ LeftPromoting =>
          last.pre.promotion_square # None /\ promotion_square = None
    /\ ~EnteredPromoting /\ ~LeftPromoting =>
          promotion_square = last.pre.promotion_square

\* white's promotion has been resolved and black's pawn has entered Promoting
C12_Witness ==
    /\ EnteredPromoting
    /\ promotion_square = Some(0)
    /\ plies = 9

PlayingClick == LastClicked /\ last.pre.state = "Playing"

\* C13: a Playing click with a Selection s and an on-board target t either enters
\* Promoting without a try_play call (s a pawn, t a destination that requires a
\* promotion) or makes exactly one call try_play(s, t, None) and stays Playing
\* (every other case, s = t and s empty included); a Playing click with no
\* Selection or no target makes no call and stays Playing.
C13_PlayingClickDispatch ==
    /\ PlayingClickOn /\ PromotionDetected =>
          state = "Promoting" /\ last.calls = << >>
    /\ PlayingClickOn /\ ~PromotionDetected =>
          /\ state = "Playing"
          /\ Len(last.calls) = 1
          /\ last.calls[1].mv = [ from |-> last.pre.selected[1], to |-> LastTarget[1],
                                  promotion |-> None ]
    /\ PlayingClick /\ ~PlayingClickOn =>
          state = "Playing" /\ last.calls = << >>
    /\ OffBoardPlayingClick =>
          last.published = None /\ state = "Playing" /\ last.calls = << >>

\* a second click on a selected empty square: one call try_play(s, s, None)
C13_Witness ==
    /\ PlayingClickOn
    /\ last.pre.selected = LastTarget
    /\ last.pre.board.pieces[LastTarget[1]] = "None"
    /\ Len(last.calls) = 1
    /\ ~last.calls[1].ok

SomeCallSucceeded == \E i \in DOMAIN last.calls : last.calls[i].ok

\* C14: the board starts as the standard initial position and differs from the
\* board before the step only when a try_play call of the step succeeded; a
\* CursorMoved, an event without a message, an ignored Promoting click, a click
\* that detects a promotion, a rejected commit and a click in Waiting all leave
\* it as it was.
C14_BoardChangesOnlyByCommit ==
    /\ plies = 0 => board = BoardDefault
    /\ board # last.pre.board => SomeCallSucceeded
    /\ \/ LastCursorMoved
       \/ last.message = None
       \/ PromotingClickOffPicker
       \/ PromotionDetected
       \/ RejectedCommit
       => board = last.pre.board
    /\ \A p \in ClickPoints :
          update([ VB EXCEPT !.state = "Waiting" ], Clicked(p)).vb.board = board

\* a rejected commit of the side to move's own pawn, after some moves were played
C14_Witness ==
    /\ RejectedCommit
    /\ plies > 0
    /\ last.pre.board.pieces[last.pre.selected[1]] = "Pawn"
    /\ last.pre.board.colors[last.pre.selected[1]] = last.pre.board.side_to_move
    /\ board = last.pre.board
    /\ board # BoardDefault

\* the struct as it would be in State::Waiting
Waiting == [ VB EXCEPT !.state = "Waiting" ]

\* C15: the state is always Playing or Promoting, never Waiting; and a click
\* handled in Waiting would make no call and leave every field as it was.
C15_WaitingUnreachable ==
    /\ state \in { "Playing", "Promoting" }
    /\ \A p \in ClickPoints :
          update(Waiting, Clicked(p)) = Outcome(Waiting, << >>, FALSE)

\* back in Playing after a promotion was detected and resolved
C15_Witness ==
    /\ LeftPromoting
    /\ state = "Playing"
    /\ SomeCallSucceeded

\* C16: a frame still in the cache is the frame of the current board, Selection,
\* state and hovered cell: every handled message clears the cache, so the next
\* repaint draws the current state.
C16_CachedFrameIsCurrent ==
    cache # None => cache[1] = draw(VB)

\* a frame drawn while Promoting with the hovered cell on the picker
C16_Witness ==
    /\ cache # None
    /\ state = "Promoting"
    /\ hovered_tile = Some(<< 3, 4 >>)
    /\ cache[1] = draw(VB)

HoveredOnPicker == hovered_tile # None /\ hovered_tile[1] \in PickerCells

\* C17: the frame has the promotion overlay (all 64 cells dimmed, and the sprites
\* rook, knight, bishop, queen on cells (2,4), (3,4), (4,4), (5,4)) exactly when
\* the state is Promoting, and a highlighted cell exactly when the state is
\* Promoting and the hovered cell is one of those four cells, which is then the
\* highlighted one.
C17_PromotionOverlay ==
    cache # None =>
        LET frame == cache[1]
        IN  /\ IF state = "Promoting"
               THEN /\ frame.dimmed = (0..7) \X (0..7)
                    /\ frame.promotion_sprites =
                          { << << 2, 4 >>, "assets/color/neutral/", "rook.png" >>,
                            << << 3, 4 >>, "assets/color/neutral/", "knight.png" >>,
                            << << 4, 4 >>, "assets/color/neutral/", "bishop.png" >>,
                            << << 5, 4 >>, "assets/color/neutral/", "queen.png" >> }
               ELSE /\ frame.dimmed = {}
                    /\ frame.promotion_sprites = {}
            /\ frame.highlight # None <=> state = "Promoting" /\ HoveredOnPicker
            /\ frame.highlight # None => frame.highlight = hovered_tile

\* a frame with the overlay and the bishop's cell highlighted
C17_Witness ==
    /\ cache # None
    /\ state = "Promoting"
    /\ cache[1].dimmed # {}
    /\ cache[1].highlight = Some(<< 4, 4 >>)

\* C18: while Promoting, the Selection and the pending promotion square are set
\* and are the source and the target of the click that detected the promotion,
\* the board is the board of that click, and on it the source holds a pawn whose
\* move to the target requires a promotion; no step ends in a panic (the two
\* unwraps and the panic!("???") of the resolution).
C18_PromotingKeepsDetection ==
    /\ state = "Promoting" =>
          /\ episode # None
          /\ selected # None
          /\ promotion_square # None
          /\ selected = episode[1].from
          /\ promotion_square = episode[1].to
          /\ board = episode[1].board
          /\ board.pieces[selected[1]] = "Pawn"
          /\ RequiresPromotion(board, selected[1], promotion_square[1])
    /\ ~last.panic

\* still Promoting after a click on a square elsewhere was ignored
C18_Witness ==
    /\ LastClicked
    /\ last.pre.state = "Promoting"
    /\ state = "Promoting"
    /\ LastTarget # None
    /\ LastTarget # selected
    /\ LastTarget # promotion_square
    /\ selected = episode[1].from

\* C19: a try_play call with promotion None is never for a pawn's move to a
\* destination that requires a promotion on the board of the call; a call with
\* promotion Some(p) is always for such a move, and it succeeds: the board
\* changes and p stands on the destination.
C19_PromotionArgumentMatchesMove ==
    \A i \in DOMAIN last.calls :
        LET mv == last.calls[i].mv
            b  == last.pre.board
        IN  /\ mv.promotion = None =>
                  ~(b.pieces[mv.from] = "Pawn" /\ RequiresPromotion(b, mv.from, mv.to))
            /\ mv.promotion # None =>
                  /\ b.pieces[mv.from] = "Pawn"
                  /\ RequiresPromotion(b, mv.from, mv.to)
                  /\ last.calls[i].ok
                  /\ board # b
                  /\ board.pieces[mv.to] = mv.promotion[1]
                  /\ board.pieces[mv.from] = "None"

\* black's pawn has promoted to a rook on a1 or c1
C19_Witness ==
    /\ Len(last.calls) = 1
    /\ last.calls[1].mv.promotion = Some("Rook")
    /\ last.pre.board.side_to_move = "Black"
    /\ last.calls[1].ok
    /\ board.pieces[last.calls[1].mv.to] = "Rook"

====
